---------------------------- MODULE Spec2Model ----------------------------
(***************************************************************************)
(* ScreenWisdom: the recorders (core/recording/recording.py) and the        *)
(* interaction segmenters (core/interpreting.py).                          *)
(*                                                                         *)
(* Timestamps are integers counting tenths of a second, so the double      *)
(* click window of 0.5 s is 5 and the typing delay of 1.5 s is 15.         *)
(* Python's None is the string "None".  Python lists are sequences; a      *)
(* 0-based Python index i is the 1-based index i + 1 here.                 *)
(***************************************************************************)
EXTENDS Integers, Sequences, FiniteSets, TLC

VARIABLES
    mouse_recording,        \* MouseRecorder.recording
    keyboard_recording,     \* KeyboardRecorder.recording
    now,                    \* the value time() last returned
    captured,               \* number of event objects created so far
    pc,                     \* "recording" until the script interprets, then "done";
                            \* "segmented" once interpreting.py itself has run
    mouse_popped,           \* what mouse_rec.pop_recording() returned, as it was then
    keyboard_popped,        \* what keyboard_rec.pop_recording() returned, as it was then
    mouse_batch,            \* the list handed to interactions_from_mouse_recording, after the call
    keyboard_batch,         \* the list handed to interactions_from_keyboard_recording, after the call
    mouse_interactions,     \* what interactions_from_mouse_recording returned
    keyboard_interactions,  \* what interactions_from_keyboard_recording returned
    combined,               \* the merged, sorted list of the script
    raised,                 \* TRUE when a segmenter raised ValueError
    session,                \* what the user does in this session (see Sessions)
    returned,               \* per recorder, the lists pop_recording has returned
    appending,              \* per recorder, the callback its listener thread is running
    called                  \* the function called directly, with what it gave

vars == <<mouse_recording, keyboard_recording, now, captured, pc, mouse_popped,
          keyboard_popped, mouse_batch,
          keyboard_batch, mouse_interactions, keyboard_interactions, combined, raised,
          session, returned, appending, called>>

-----------------------------------------------------------------------------
(* Bounds of the model and the sets the inputs are drawn from.              *)

MaxClickEvents == 4
MaxScrollEvents == 3
MaxKeyEvents == 4
MaxMixedEvents == 2
MaxDrainEvents == 3
MaxDrains == 2
MaxChain == 3
MaxDirectEvents == 2
MaxPointerEvents == 4
MaxTypingEvents == 6
MaxShuffledEvents == 3
MaxLiveEvents == 3

\* The user clicks, or scrolls, or types, or does a little of everything,
\* and the script interprets the recordings once the user has stopped.
\* "pointer": clicks between scrolls.  "typing": keys tapped one after the
\* other, each released before the next is pressed.
Scripted == {"click", "scroll", "keyboard", "mixed", "pointer", "typing"}

\* "drain": the recordings are popped while the listeners are running.
\* "direct": one function is called on its own, as the unit tests do.
\* "live": interpreting.py is run as a script, which pops nothing.
Sessions == Scripted \cup {"drain", "direct", "live"}

Recorders == {"mouse", "keyboard"}

None == "None"

Buttons == {"left", "right"}
Coords == {<<10, 10>>, <<50, 50>>}
ScrollDeltas == {<<0, 1>>, <<1, 1>>, <<0, -1>>, <<-1, 1>>}
Keys == {"a", "b"}
ControlNames == {None, "edit"}

\* The controls the focus moves between while the user types.
TypingControls == {"edit", "list"}

\* Seconds (in tenths) that pass between two notifications.
MouseGaps == {2, 3}
KeyGaps == {7, 8}

MOUSE_MAX_DOUBLE_CLICK_DELAY_SECONDS == 5
KEYBOARD_MAX_TYPING_DELAY_SECONDS == 15

-----------------------------------------------------------------------------
(* Events.                                                                 *)

\* uia.ControlFromPoint(x, y): the screen does not change during a session,
\* so the control under a point is a function of the point.
ControlFromPoint(xy) == IF xy = <<10, 10>> THEN "ctrlA" ELSE "ctrlB"

MouseClick(id, xy, t, button, pressed) ==
    [id |-> id, kind |-> "MouseClick", timestamp |-> t, coords |-> xy,
     button |-> button, pressed |-> pressed, dx |-> 0, dy |-> 0,
     control |-> ControlFromPoint(xy)]

MouseScroll(id, xy, t, dx, dy) ==
    [id |-> id, kind |-> "MouseScroll", timestamp |-> t, coords |-> xy,
     button |-> None, pressed |-> FALSE, dx |-> dx, dy |-> dy,
     control |-> ControlFromPoint(xy)]

vertical_direction(e) == IF e.dy < 0 THEN "down" ELSE "up"

horizontal_direction_nonpositive(e) == IF e.dx <= 0 THEN "left" ELSE "right"

horizontal_direction(e) == IF e.dx < 0 THEN "left" ELSE "right"

\* The context of a key event is the focused control; the segmenter reads
\* only closest_ctrl_name.
KeyPress(id, t, key, name) ==
    [id |-> id, kind |-> "KeyPress", timestamp |-> t, key |-> key,
     closest_ctrl_name |-> name]

\* The context of a release is resolved as well but never read.
KeyRelease(id, t, key) ==
    [id |-> id, kind |-> "KeyRelease", timestamp |-> t, key |-> key,
     closest_ctrl_name |-> None]

\* What `recording[j] = None` leaves in the list.
NoneEvent ==
    [id |-> 0, kind |-> None, timestamp |-> 0, key |-> None,
     closest_ctrl_name |-> None]

-----------------------------------------------------------------------------
(* MouseCoordinates and Context.                                           *)

\* MouseCoordinates.__post_init__ sets coords and checks nothing.
MouseCoordinates(x, y) == [raises |-> None, x |-> x, y |-> y, coords |-> <<x, y>>]

\* A control is the chain of elements from itself up to the root: its own
\* attributes first, then its parent's, and so on.  GetParentControl() of
\* the last element is None.
ControlElements ==
    {[Name |-> "", ClassName |-> ""],
     [Name |-> "Calculator", ClassName |-> ""],
     [Name |-> "", ClassName |-> "Pane"],
     [Name |-> "Desktop", ClassName |-> "Frame"]}

Controls == UNION {[1..n -> ControlElements] : n \in 1..MaxChain}

DEFAULT_MAX_PARENT_CONTROL_CHECKS == 5

\* Lines 87-98: the while loop, parent being the index of the element that
\* `parent` names and max_checks the parameter max_parent_control_checks.
RECURSIVE ParentLoop(_, _, _, _, _)
ParentLoop(control, attribute_name, parent, name_search_attempts, max_checks) ==
    IF parent <= Len(control) /\ name_search_attempts <= max_checks
    THEN IF control[parent][attribute_name] # ""
         THEN control[parent][attribute_name]
         ELSE ParentLoop(control, attribute_name, parent + 1,
                         name_search_attempts + 1, max_checks)
    ELSE None

get_relevant_control_attribute_from_zero(control, attribute_name, max_checks) ==
    IF control[1][attribute_name] # "" THEN control[1][attribute_name]
    ELSE ParentLoop(control, attribute_name, 2, 0, max_checks)

\* Context.get_relevant_control_attribute
get_relevant_control_attribute(control, attribute_name, max_checks) ==
    IF control[1][attribute_name] # "" THEN control[1][attribute_name]
    ELSE ParentLoop(control, attribute_name, 2, 1, max_checks)

\* The queries of Context.__init__, in the order it makes them.  A query
\* fails when the control was deleted or the application closed meanwhile.
ContextQueries == <<"Name", "ClassName", "window_title", "process_name">>

\* The number of the first query that raises; 5 when none does.  With no
\* control at all (None) the first getattr raises AttributeError.
FirstFailure(control, fails) ==
    IF control = <<>> THEN 1
    ELSE IF \E q \in 1..4 : ContextQueries[q] = fails
         THEN CHOOSE q \in 1..4 : ContextQueries[q] = fails
         ELSE 5

\* Context.__init__: every field starts as None and the try block assigns
\* them one after the other until a query raises; the except clause passes.
Context(control, fails) ==
    LET failure == FirstFailure(control, fails)
    IN  [control |-> control,
         closest_ctrl_name |->
             IF failure > 1
             THEN get_relevant_control_attribute(control, "Name",
                                                 DEFAULT_MAX_PARENT_CONTROL_CHECKS)
             ELSE None,
         closest_ctrl_class_name |->
             IF failure > 2
             THEN get_relevant_control_attribute(control, "ClassName",
                                                 DEFAULT_MAX_PARENT_CONTROL_CHECKS)
             ELSE None,
         window_title |-> IF failure > 3 THEN "Calculator" ELSE None,
         process_name |-> IF failure > 4 THEN "ApplicationFrameHost.exe" ELSE None]

\* What can go wrong while an event is captured: nothing, the lookup of the
\* control raising or finding no control, or one of the queries raising.
Failures == {None, "lookup raises", "no control"}
                \cup {ContextQueries[q] : q \in 1..4}

\* MouseClick.__post_init__: the lookup uia.ControlFromPoint(x, y) is
\* evaluated before Context.__init__ is entered, outside its try block.
\* When it raises there is no event and no Context.
MouseClick_post_init(control, fails) ==
    IF fails = "lookup raises"
    THEN [raises |-> "COMError", context |-> Context(<<>>, None)]
    ELSE [raises |-> None,
          context |-> Context(IF fails = "no control" THEN <<>> ELSE control, fails)]

-----------------------------------------------------------------------------
(* Interaction.__post_init__                                               *)

Interaction_swapped(interaction_type, events) ==
    IF Len(events) = 0
    THEN [interaction_type |-> "ValueError", input_events_associated |-> events,
          interaction_start_timestamp |-> 0, interaction_end_timestamp |-> 0]
    ELSE [interaction_type |-> interaction_type,
          input_events_associated |-> events,
          interaction_start_timestamp |-> events[Len(events)].timestamp,
          interaction_end_timestamp |-> events[1].timestamp]

Interaction_unchecked(interaction_type, events) ==
    [interaction_type |-> interaction_type,
     input_events_associated |-> events,
     interaction_start_timestamp |-> IF Len(events) = 0 THEN 0 ELSE events[1].timestamp,
     interaction_end_timestamp |->
         IF Len(events) = 0 THEN 0 ELSE events[Len(events)].timestamp]

\* An empty event list raises ValueError: the record of type "ValueError"
\* stands for the exception, which aborts the segmenter (see Returned).
Interaction(interaction_type, events) ==
    IF Len(events) = 0
    THEN [interaction_type |-> "ValueError", input_events_associated |-> events,
          interaction_start_timestamp |-> 0, interaction_end_timestamp |-> 0]
    ELSE [interaction_type |-> interaction_type,
          input_events_associated |-> events,
          interaction_start_timestamp |-> events[1].timestamp,
          interaction_end_timestamp |-> events[Len(events)].timestamp]

Raises(interactions) ==
    \E i \in 1..Len(interactions) : interactions[i].interaction_type = "ValueError"

\* What the caller gets: nothing when an Interaction could not be built.
Returned(interactions) == IF Raises(interactions) THEN <<>> ELSE interactions

-----------------------------------------------------------------------------
(* list.sort(key=...): stable, ascending.                                  *)

\* The key is an attribute name.  x was before every element of s in the
\* list being sorted, so it goes in front of the elements whose key equals
\* its own.
RECURSIVE InsertBy(_, _, _)
InsertBy(key, x, s) ==
    IF s = <<>> THEN <<x>>
    ELSE IF x[key] <= Head(s)[key] THEN <<x>> \o s
    ELSE <<Head(s)>> \o InsertBy(key, x, Tail(s))

RECURSIVE SortBy(_, _)
SortBy(key, s) ==
    IF s = <<>> THEN <<>> ELSE InsertBy(key, Head(s), SortBy(key, Tail(s)))

SortByTimestamp_as_given(recording) == recording

SortByTimestamp(recording) == SortBy("timestamp", recording)

-----------------------------------------------------------------------------
(* interactions_from_mouse_recording                                       *)

RECURSIVE FirstRelease_of_any_button(_, _, _)
FirstRelease_of_any_button(recording, button, j) ==
    IF j > Len(recording) THEN 0
    ELSE IF recording[j].kind = "MouseClick" /\ ~recording[j].pressed
         THEN j
         ELSE FirstRelease_of_any_button(recording, button, j + 1)

\* Lines 69-72: the first event of recording[i:] that is a release of the
\* button of recording[i]; 0 when the for loop ends without a break.
RECURSIVE FirstRelease(_, _, _)
FirstRelease(recording, button, j) ==
    IF j > Len(recording) THEN 0
    ELSE IF recording[j].kind = "MouseClick" /\ recording[j].button = button
            /\ ~recording[j].pressed
         THEN j
         ELSE FirstRelease(recording, button, j + 1)

ClickOrDrag_swapped(recording, i, st) ==
    LET event == recording[i]
        j == FirstRelease(recording, event.button, i)
    IN  IF ~(event.kind = "MouseClick" /\ event.pressed) \/ j = 0 THEN st
        ELSE IF event.coords = recording[j].coords
             THEN [st EXCEPT !.interactions =
                      Append(@, Interaction("MOUSE_DRAGGED", <<event, recording[j]>>))]
             ELSE [st EXCEPT !.related_click_events =
                      Append(@, <<event, recording[j]>>)]

\* Lines 66-80: a press and its release make a drag or a click candidate.
ClickOrDrag(recording, i, st) ==
    LET event == recording[i]
        j == FirstRelease(recording, event.button, i)
    IN  IF ~(event.kind = "MouseClick" /\ event.pressed) \/ j = 0 THEN st
        ELSE IF event.coords # recording[j].coords
             THEN [st EXCEPT !.interactions =
                      Append(@, Interaction("MOUSE_DRAGGED", <<event, recording[j]>>))]
             ELSE [st EXCEPT !.related_click_events =
                      Append(@, <<event, recording[j]>>)]

Scroll_unguarded(recording, i, st) ==
    LET event == recording[i]
    IN  IF event.kind # "MouseScroll" THEN st
        ELSE IF vertical_direction(event) = st.previous_scroll_y_dir
                /\ horizontal_direction(event) = st.previous_scroll_x_dir
                /\ event.control = st.previous_scroll_control
             THEN [st EXCEPT !.current_scroll_sequence = Append(@, event)]
             ELSE [st EXCEPT
                      !.interactions =
                          Append(@, Interaction("MOUSE_SCROLLED",
                                                st.current_scroll_sequence)),
                      !.current_scroll_sequence = <<event>>,
                      !.previous_scroll_control = event.control,
                      !.previous_scroll_y_dir = vertical_direction(event),
                      !.previous_scroll_x_dir = horizontal_direction(event)]

Scroll_broken_by_clicks(recording, i, st) ==
    LET event == recording[i]
    IN  IF event.kind # "MouseScroll" THEN [st EXCEPT !.previous_scroll_control = None]
        ELSE IF vertical_direction(event) = st.previous_scroll_y_dir
                /\ horizontal_direction(event) = st.previous_scroll_x_dir
                /\ event.control = st.previous_scroll_control
             THEN [st EXCEPT !.current_scroll_sequence = Append(@, event)]
             ELSE [st EXCEPT
                      !.interactions =
                          IF Len(st.current_scroll_sequence) # 0
                          THEN Append(@, Interaction("MOUSE_SCROLLED",
                                                     st.current_scroll_sequence))
                          ELSE @,
                      !.current_scroll_sequence = <<event>>,
                      !.previous_scroll_control = event.control,
                      !.previous_scroll_y_dir = vertical_direction(event),
                      !.previous_scroll_x_dir = horizontal_direction(event)]

\* Lines 88-105: a scroll extends the current sequence or closes it.
Scroll(recording, i, st) ==
    LET event == recording[i]
    IN  IF event.kind # "MouseScroll" THEN st
        ELSE IF vertical_direction(event) = st.previous_scroll_y_dir
                /\ horizontal_direction(event) = st.previous_scroll_x_dir
                /\ event.control = st.previous_scroll_control
             THEN [st EXCEPT !.current_scroll_sequence = Append(@, event)]
             ELSE [st EXCEPT
                      !.interactions =
                          IF Len(st.current_scroll_sequence) # 0
                          THEN Append(@, Interaction("MOUSE_SCROLLED",
                                                     st.current_scroll_sequence))
                          ELSE @,
                      !.current_scroll_sequence = <<event>>,
                      !.previous_scroll_control = event.control,
                      !.previous_scroll_y_dir = vertical_direction(event),
                      !.previous_scroll_x_dir = horizontal_direction(event)]

\* Lines 57-105: the loop over the sorted recording, from index i on.
RECURSIVE MouseLoop(_, _, _)
MouseLoop(recording, i, st) ==
    IF i > Len(recording) THEN st
    ELSE MouseLoop(recording, i + 1, Scroll(recording, i, ClickOrDrag(recording, i, st)))

MouseLoopStart ==
    [interactions |-> <<>>, related_click_events |-> <<>>,
     previous_scroll_control |-> None, previous_scroll_x_dir |-> None,
     previous_scroll_y_dir |-> None, current_scroll_sequence |-> <<>>]

IsSingleClick_strict(related_click_events, i) ==
    LET press == related_click_events[i][1]
        prior == related_click_events[i - 1][1]
        next == related_click_events[i + 1][1]
    IN  /\ ~(/\ i > 1
              /\ prior.timestamp - press.timestamp < MOUSE_MAX_DOUBLE_CLICK_DELAY_SECONDS
              /\ prior.button = press.button)
        /\ ~(/\ i < Len(related_click_events)
              /\ next.timestamp - press.timestamp < MOUSE_MAX_DOUBLE_CLICK_DELAY_SECONDS
              /\ next.button = press.button)

\* Lines 117-137: single_click of the click at index i of related_click_events.
IsSingleClick(related_click_events, i) ==
    LET press == related_click_events[i][1]
        prior == related_click_events[i - 1][1]
        next == related_click_events[i + 1][1]
    IN  /\ ~(/\ i > 1
              /\ prior.timestamp - press.timestamp <= MOUSE_MAX_DOUBLE_CLICK_DELAY_SECONDS
              /\ prior.button = press.button)
        /\ ~(/\ i < Len(related_click_events)
              /\ next.timestamp - press.timestamp <= MOUSE_MAX_DOUBLE_CLICK_DELAY_SECONDS
              /\ next.button = press.button)

\* Lines 144-147: one MOUSE_CLICKED per single click, highest index first.
\* The click groups stay in related_click_events.
RECURSIVE SingleClicks(_, _)
SingleClicks(related_click_events, i) ==
    IF i < 1 THEN <<>>
    ELSE (IF IsSingleClick(related_click_events, i)
          THEN <<Interaction("MOUSE_CLICKED", related_click_events[i])>>
          ELSE <<>>)
         \o SingleClicks(related_click_events, i - 1)

\* Lines 151-153: range(0, len - 1, 2) over related_click_events.
RECURSIVE DoubleClicks(_, _)
DoubleClicks(related_click_events, i) ==
    IF i > Len(related_click_events) - 1 THEN <<>>
    ELSE <<Interaction("MOUSE_DOUBLE_CLICKED",
                       related_click_events[i] \o related_click_events[i + 1])>>
         \o DoubleClicks(related_click_events, i + 2)

\* The list as the call leaves it: sorted in place (line 47) unless empty.
MouseSorted(recording) ==
    IF Len(recording) = 0 THEN recording ELSE SortByTimestamp(recording)

\* Every Interaction the function builds, in the order it builds them.
MouseBuilt(recording) ==
    IF Len(recording) = 0 THEN <<>>
    ELSE LET st == MouseLoop(MouseSorted(recording), 1, MouseLoopStart)
         IN  st.interactions
             \o SingleClicks(st.related_click_events, Len(st.related_click_events))
             \o DoubleClicks(st.related_click_events, 1)

interactions_from_mouse_recording(recording) == Returned(MouseBuilt(recording))

-----------------------------------------------------------------------------
(* interactions_from_keyboard_recording                                    *)

\* Lines 184-200: the scan of recording[i+1:] for the press `event` found at
\* index i.  slice is the copy recording[i+1:] made when the scan starts and
\* p the index in recording of the slice element looked at, so that the
\* enumerate counter j is p - i - 1 in Python's 0-based terms and
\* `recording[j] = None` writes index p - i here.
RECURSIVE KeyScan(_, _, _, _, _)
KeyScan(slice, event, i, p, st) ==
    IF p - i > Len(slice) THEN st
    ELSE LET subseq_event == slice[p - i]
         IN  IF subseq_event.kind = "KeyRelease" /\ subseq_event.key = event.key
             THEN IF st.key_being_held
                  THEN [st EXCEPT
                           !.interactions =
                               Append(@, Interaction("SINGLE_KEY_HELD",
                                                     <<event, subseq_event>>)),
                           !.key_being_held = FALSE]
                  ELSE [st EXCEPT !.related_keypress_events =
                                      Append(@, <<event, subseq_event>>)]
             ELSE IF subseq_event.kind = "KeyPress" /\ subseq_event.key = event.key
                  THEN KeyScan(slice, event, i, p + 1,
                               [st EXCEPT !.recording[p - i] = NoneEvent,
                                          !.key_being_held = TRUE])
                  ELSE KeyScan(slice, event, i, p + 1, st)

\* Lines 174-200: the loop over the list, which the scans overwrite as it runs.
RECURSIVE KeyLoop(_, _)
KeyLoop(i, st) ==
    IF i > Len(st.recording) THEN st
    ELSE LET event == st.recording[i]
         IN  IF event.kind = "KeyPress"
             THEN KeyLoop(i + 1,
                          KeyScan(SubSeq(st.recording, i + 1, Len(st.recording)),
                                  event, i, i + 1, st))
             ELSE KeyLoop(i + 1, st)

KeyLoopStart(recording) ==
    [recording |-> recording, interactions |-> <<>>,
     related_keypress_events |-> <<>>, key_being_held |-> FALSE]

\* Lines 215-227: individual_key_press of the group at index i.
IsIndividualKeyPress(related_keypress_events, i) ==
    LET press == related_keypress_events[i][1]
        prior == related_keypress_events[i - 1][1]
        next == related_keypress_events[i + 1][1]
    IN  /\ ~(/\ i > 1
              /\ prior.timestamp - press.timestamp <= KEYBOARD_MAX_TYPING_DELAY_SECONDS)
        /\ ~(/\ i < Len(related_keypress_events)
              /\ next.timestamp - press.timestamp <= KEYBOARD_MAX_TYPING_DELAY_SECONDS)

\* Lines 235-240: one SINGLE_KEY_PRESSED per individual press, highest index
\* first; all flags were computed on the full list before any pop.
RECURSIVE SingleKeyPresses(_, _)
SingleKeyPresses(related_keypress_events, i) ==
    IF i < 1 THEN <<>>
    ELSE (IF IsIndividualKeyPress(related_keypress_events, i)
          THEN <<Interaction("SINGLE_KEY_PRESSED", related_keypress_events[i])>>
          ELSE <<>>)
         \o SingleKeyPresses(related_keypress_events, i - 1)

\* Line 238: related_keypress_events once the individual presses are popped.
RECURSIVE RemainingKeyPresses(_, _)
RemainingKeyPresses(related_keypress_events, i) ==
    IF i > Len(related_keypress_events) THEN <<>>
    ELSE (IF IsIndividualKeyPress(related_keypress_events, i)
          THEN <<>>
          ELSE <<related_keypress_events[i]>>)
         \o RemainingKeyPresses(related_keypress_events, i + 1)

\* Lines 249-269: typing_sequence_break_indexes, as Python's 0-based values.
\* i is the 1-based index of the group looked at, so Python's i is i - 1.
RECURSIVE TypingBreaks(_, _, _)
TypingBreaks(related_keypress_events, i, previous_control_name) ==
    IF i > Len(related_keypress_events) THEN <<>>
    ELSE IF i = Len(related_keypress_events) THEN <<i>>
    ELSE LET press == related_keypress_events[i][1]
             next == related_keypress_events[i + 1][1]
             subsequent_keypress_time_difference == next.timestamp - press.timestamp
             control_different == press.closest_ctrl_name # previous_control_name
         IN  (IF subsequent_keypress_time_difference > KEYBOARD_MAX_TYPING_DELAY_SECONDS
                 \/ control_different
              THEN <<i - 1>>
              ELSE <<>>)
             \o TypingBreaks(related_keypress_events, i + 1,
                             IF control_different THEN press.closest_ctrl_name
                             ELSE previous_control_name)

\* Lines 278-279: the presses of related_keypress_events[from:to].
RECURSIVE PressesOf(_, _, _)
PressesOf(related_keypress_events, from, to) ==
    IF from >= to \/ from >= Len(related_keypress_events) THEN <<>>
    ELSE <<related_keypress_events[from + 1][1]>>
         \o PressesOf(related_keypress_events, from + 1, to)

\* Lines 272-282: one KEYBOARD_TYPING per pair of consecutive break indexes.
RECURSIVE Typings(_, _, _)
Typings(related_keypress_events, breaks, i) ==
    IF i > Len(breaks) - 1 THEN <<>>
    ELSE <<Interaction("KEYBOARD_TYPING",
                       PressesOf(related_keypress_events, breaks[i], breaks[i + 1]))>>
         \o Typings(related_keypress_events, breaks, i + 1)

\* The list as the call leaves it: sorted (line 169), then overwritten by the
\* scans (line 199).
KeyboardLeft(recording) ==
    IF Len(recording) = 0 THEN recording
    ELSE KeyLoop(1, KeyLoopStart(SortByTimestamp(recording))).recording

\* Every Interaction the function builds, in the order it builds them.
KeyboardBuilt(recording) ==
    IF Len(recording) = 0 THEN <<>>
    ELSE LET st == KeyLoop(1, KeyLoopStart(SortByTimestamp(recording)))
             remaining == RemainingKeyPresses(st.related_keypress_events, 1)
         IN  st.interactions
             \o SingleKeyPresses(st.related_keypress_events,
                                 Len(st.related_keypress_events))
             \o Typings(remaining, TypingBreaks(remaining, 1, None), 1)

\* Line 284: the result is sorted by start timestamp.
interactions_from_keyboard_recording(recording) ==
    IF Raises(KeyboardBuilt(recording)) THEN <<>>
    ELSE SortBy("interaction_start_timestamp", KeyboardBuilt(recording))

Combine_unsorted(mouse, keyboard) == mouse \o keyboard

\* interpreting_test.py lines 97-98: combined = mouse + keyboard, sorted.
Combine(mouse, keyboard) == SortBy("interaction_start_timestamp", mouse \o keyboard)

-----------------------------------------------------------------------------
(* The recorders' callbacks and the script that interprets a session.      *)

NoCall == [function |-> None, args |-> <<>>, result |-> None]

Init ==
    /\ mouse_recording = <<>>
    /\ keyboard_recording = <<>>
    /\ now = 0
    /\ captured = 0
    /\ pc = "recording"
    /\ mouse_popped = <<>>
    /\ keyboard_popped = <<>>
    /\ mouse_batch = <<>>
    /\ keyboard_batch = <<>>
    /\ mouse_interactions = <<>>
    /\ keyboard_interactions = <<>>
    /\ combined = <<>>
    /\ raised = FALSE
    /\ session \in Sessions
    /\ returned = [r \in Recorders |-> <<>>]
    /\ appending = [r \in Recorders |-> <<>>]
    /\ called = NoCall

Results == <<mouse_popped, keyboard_popped, mouse_batch, keyboard_batch,
             mouse_interactions, keyboard_interactions, combined, raised>>

\* What the sessions of a script leave alone.
Direct == <<returned, appending, called>>

on_click_presses_only(limit, buttons, coords, gaps) ==
    /\ pc = "recording"
    /\ Len(mouse_recording) < limit
    /\ \E gap \in gaps, xy \in coords, button \in buttons, pressed \in BOOLEAN :
          /\ now' = now + gap
          /\ mouse_recording' =
                IF pressed
                THEN Append(mouse_recording,
                            MouseClick(captured + 1, xy, now + gap, button, pressed))
                ELSE mouse_recording
    /\ captured' = captured + 1
    /\ UNCHANGED <<keyboard_recording, pc, Results, session, Direct>>

\* MouseRecorder.on_click: at most `limit` notifications are delivered.
on_click(limit, buttons, coords, gaps) ==
    /\ pc = "recording"
    /\ Len(mouse_recording) < limit
    /\ \E gap \in gaps, xy \in coords, button \in buttons, pressed \in BOOLEAN :
          /\ now' = now + gap
          /\ mouse_recording' =
                Append(mouse_recording,
                       MouseClick(captured + 1, xy, now + gap, button, pressed))
    /\ captured' = captured + 1
    /\ UNCHANGED <<keyboard_recording, pc, Results, session, Direct>>

\* MouseRecorder.on_scroll
on_scroll(limit, coords, deltas, gaps) ==
    /\ pc = "recording"
    /\ Len(mouse_recording) < limit
    /\ \E gap \in gaps, xy \in coords, d \in deltas :
          /\ now' = now + gap
          /\ mouse_recording' =
                Append(mouse_recording,
                       MouseScroll(captured + 1, xy, now + gap, d[1], d[2]))
    /\ captured' = captured + 1
    /\ UNCHANGED <<keyboard_recording, pc, Results, session, Direct>>

\* KeyboardRecorder.record_key_press
record_key_press(limit, keys, names, gaps) ==
    /\ pc = "recording"
    /\ Len(keyboard_recording) < limit
    /\ \E gap \in gaps, key \in keys, name \in names :
          /\ now' = now + gap
          /\ keyboard_recording' =
                Append(keyboard_recording, KeyPress(captured + 1, now + gap, key, name))
    /\ captured' = captured + 1
    /\ UNCHANGED <<mouse_recording, pc, Results, session, Direct>>

\* KeyboardRecorder.record_key_release
record_key_release(limit, keys, gaps) ==
    /\ pc = "recording"
    /\ Len(keyboard_recording) < limit
    /\ \E gap \in gaps, key \in keys :
          /\ now' = now + gap
          /\ keyboard_recording' =
                Append(keyboard_recording, KeyRelease(captured + 1, now + gap, key))
    /\ captured' = captured + 1
    /\ UNCHANGED <<mouse_recording, pc, Results, session, Direct>>

pop_recording_keep(recording) == [result |-> recording, recording |-> recording]

\* InputRecorder.pop_recording: result, self.recording = self.recording, []
pop_recording(recording) == [result |-> recording, recording |-> <<>>]

\* interpreting_test.py lines 94-98: both recordings are popped, segmented
\* and merged.
Interpret ==
    /\ pc = "recording"
    /\ session \in Scripted
    /\ LET mouse == pop_recording(mouse_recording)
           keyboard == pop_recording(keyboard_recording)
           mouse_out == interactions_from_mouse_recording(mouse.result)
           keyboard_out == interactions_from_keyboard_recording(keyboard.result)
       IN  /\ mouse_recording' = mouse.recording
           /\ keyboard_recording' = keyboard.recording
           /\ mouse_popped' = mouse.result
           /\ keyboard_popped' = keyboard.result
           /\ mouse_batch' = MouseSorted(mouse.result)
           /\ keyboard_batch' = KeyboardLeft(keyboard.result)
           /\ mouse_interactions' = mouse_out
           /\ keyboard_interactions' = keyboard_out
           /\ raised' = (Raises(MouseBuilt(mouse.result))
                           \/ Raises(KeyboardBuilt(keyboard.result)))
           /\ combined' = IF raised' THEN <<>> ELSE Combine(mouse_out, keyboard_out)
    /\ pc' = "done"
    /\ UNCHANGED <<now, captured, session, Direct>>

-----------------------------------------------------------------------------
(* The recorders while their listeners run.  pynput runs the callbacks of  *)
(* a listener one after the other on the listener's thread; pop_recording  *)
(* is called on the thread of the script.  No lock is taken anywhere.      *)

\* self.recording of the recorder r.
RecordingOf(r) == IF r = "mouse" THEN mouse_recording ELSE keyboard_recording

\* `self.recording.append(MouseClick(x, y, time(), button, pressed))`:
\* Python evaluates self.recording.append first, which binds the list that
\* self.recording names at that moment, then time() and the event, whose
\* construction queries the screen; the append itself comes last.  The
\* list bound is the one after the lists returned so far: target is its
\* number, counted from the first list the recorder created.
BeginCallback(r, event) ==
    /\ session = "drain"
    /\ captured < MaxDrainEvents
    /\ appending[r] = <<>>
    /\ appending' = [appending EXCEPT
                        ![r] = <<[target |-> Len(returned[r]) + 1, event |-> event]>>]
    /\ now' = event.timestamp
    /\ captured' = captured + 1
    /\ UNCHANGED <<mouse_recording, keyboard_recording, pc, Results, session,
                   returned, called>>

\* MouseRecorder.on_click, up to the call of append.
on_click_begin ==
    /\ session = "drain"
    /\ \E pressed \in BOOLEAN :
          BeginCallback("mouse",
                        MouseClick(captured + 1, <<10, 10>>, now + 3, "left", pressed))

\* KeyboardRecorder.record_key_press, up to the call of append.
record_key_press_begin ==
    /\ session = "drain"
    /\ BeginCallback("keyboard", KeyPress(captured + 1, now + 3, "a", "edit"))

\* list.append on the list the callback bound: the recording, or a list
\* that pop_recording has returned since.
list_append(r) ==
    /\ session = "drain"
    /\ appending[r] # <<>>
    /\ LET target == appending[r][1].target
           event == appending[r][1].event
       IN  IF target = Len(returned[r]) + 1
           THEN /\ mouse_recording' =
                      IF r = "mouse" THEN Append(mouse_recording, event)
                      ELSE mouse_recording
                /\ keyboard_recording' =
                      IF r = "keyboard" THEN Append(keyboard_recording, event)
                      ELSE keyboard_recording
                /\ UNCHANGED returned
           ELSE /\ returned' = [returned EXCEPT ![r][target].list = Append(@, event)]
                /\ UNCHANGED <<mouse_recording, keyboard_recording>>
    /\ appending' = [appending EXCEPT ![r] = <<>>]
    /\ UNCHANGED <<now, captured, pc, Results, session, called>>

\* recorder.pop_recording() on the script's thread.  `snapshot` is the list
\* as the call returned it and `list` the same list object as it is now.
\* The load of self.recording and the store of the new list are two steps
\* of the interpreter; a callback that binds or appends between them has
\* bound or appended to the list that is returned, as one that did so
\* just before the call.
Drain(r) ==
    /\ session = "drain"
    /\ Len(returned["mouse"]) + Len(returned["keyboard"]) < MaxDrains
    /\ LET popped == pop_recording(RecordingOf(r))
       IN  /\ returned' = [returned EXCEPT
                              ![r] = Append(@, [snapshot |-> popped.result,
                                                list |-> popped.result])]
           /\ mouse_recording' =
                 IF r = "mouse" THEN popped.recording ELSE mouse_recording
           /\ keyboard_recording' =
                 IF r = "keyboard" THEN popped.recording ELSE keyboard_recording
    /\ UNCHANGED <<now, captured, pc, Results, session, appending, called>>

\* interpreting.py lines 361-365, run when the module is loaded: the two
\* recorders are started, and after a line of input each segmenter is given
\* the recording of its recorder, the list the listener appends to.  The
\* segmenter sorts that list and writes None into it (lines 47, 169, 199).
module_script ==
    /\ session = "live"
    /\ pc = "recording"
    /\ mouse_interactions' = interactions_from_mouse_recording(mouse_recording)
    /\ keyboard_interactions' = interactions_from_keyboard_recording(keyboard_recording)
    /\ mouse_recording' = MouseSorted(mouse_recording)
    /\ keyboard_recording' = KeyboardLeft(keyboard_recording)
    /\ mouse_batch' = mouse_recording'
    /\ keyboard_batch' = keyboard_recording'
    /\ raised' = (Raises(MouseBuilt(mouse_recording))
                    \/ Raises(KeyboardBuilt(keyboard_recording)))
    /\ pc' = "segmented"
    /\ UNCHANGED <<now, captured, mouse_popped, keyboard_popped, combined, session,
                   Direct>>

-----------------------------------------------------------------------------
(* Functions called on their own.                                          *)

CoordinateValues == {-1, 0, 1}

\* Lists of up to MaxDirectEvents key presses, in any order of time.
EventLists ==
    UNION {{[k \in 1..n |-> KeyPress(k, ts[k], "a", "edit")] : ts \in [1..n -> 1..3]} :
              n \in 0..MaxDirectEvents}

CheckLimits == {0, 1, 2, DEFAULT_MAX_PARENT_CONTROL_CHECKS}

\* One call is made, in a session of its own.
Call(function, args, result) ==
    /\ called = NoCall
    /\ called' = [function |-> function, args |-> args, result |-> result]
    /\ UNCHANGED <<mouse_recording, keyboard_recording, now, captured, pc, Results,
                   session, returned, appending>>

\* recording_test.py, test_validation: MouseCoordinates(x, y).
test_validation ==
    /\ session = "direct"
    /\ called = NoCall
    /\ \E x \in CoordinateValues, y \in CoordinateValues :
          Call("MouseCoordinates", <<x, y>>, MouseCoordinates(x, y))

\* recording_test.py, test_get_relevant_control_attribute.
test_get_relevant_control_attribute ==
    /\ session = "direct"
    /\ called = NoCall
    /\ \E control \in Controls, attribute_name \in {"Name", "ClassName"},
          max_parent_control_checks \in CheckLimits :
          Call("get_relevant_control_attribute",
               <<control, attribute_name, max_parent_control_checks>>,
               get_relevant_control_attribute(control, attribute_name,
                                              max_parent_control_checks))

\* Interaction(interaction_type, events)
construct_Interaction ==
    /\ session = "direct"
    /\ called = NoCall
    /\ \E events \in EventLists :
          Call("Interaction", <<"KEYBOARD_TYPING", events>>,
               Interaction("KEYBOARD_TYPING", events))

\* MouseClick(x, y, time(), button, pressed) while the screen changes.
construct_MouseClick ==
    /\ session = "direct"
    /\ called = NoCall
    /\ \E control \in Controls, fails \in Failures :
          Call("MouseClick", <<control, fails>>, MouseClick_post_init(control, fails))

\* Events of the mouse, each with a timestamp of its own: two presses and a
\* release of the left button at one place, a release elsewhere, a scroll
\* up and a scroll down.
MousePool ==
    <<MouseClick(1, <<10, 10>>, 2, "left", TRUE), MouseClick(2, <<10, 10>>, 4, "left", FALSE),
      MouseClick(3, <<10, 10>>, 7, "left", TRUE), MouseClick(4, <<50, 50>>, 11, "left", FALSE),
      MouseScroll(5, <<10, 10>>, 5, 0, 1), MouseScroll(6, <<10, 10>>, 9, 0, -1)>>

\* Events of the keyboard, each with a timestamp of its own.
KeyPool ==
    <<KeyPress(1, 7, "a", "edit"), KeyRelease(2, 14, "a"), KeyPress(3, 10, "b", "edit"),
      KeyRelease(4, 20, "b"), KeyPress(5, 30, "a", "edit")>>

\* The lists of up to MaxShuffledEvents different events of the pool, in
\* every order.
Batches(pool) ==
    UNION {{[k \in 1..n |-> pool[f[k]]] :
               f \in {g \in [1..n -> 1..Len(pool)] :
                         \A a, b \in 1..n : a # b => g[a] # g[b]}} :
              n \in 0..MaxShuffledEvents}

\* interactions_from_mouse_recording(recording) on a list in any order.
segment_mouse_recording ==
    /\ session = "direct"
    /\ called = NoCall
    /\ \E recording \in Batches(MousePool) :
          Call("interactions_from_mouse_recording", <<recording>>,
               interactions_from_mouse_recording(recording))

\* interactions_from_keyboard_recording(recording) on a list in any order.
segment_keyboard_recording ==
    /\ session = "direct"
    /\ called = NoCall
    /\ \E recording \in Batches(KeyPool) :
          Call("interactions_from_keyboard_recording", <<recording>>,
               interactions_from_keyboard_recording(recording))

-----------------------------------------------------------------------------
(* The sessions.                                                           *)

\* Clicks only.
ClickSession ==
    session = "click" /\ on_click(MaxClickEvents, Buttons, Coords, MouseGaps)

\* Scrolls only.
ScrollSession ==
    session = "scroll" /\ on_scroll(MaxScrollEvents, Coords, ScrollDeltas, MouseGaps)

\* Keys only.
KeyPressSession ==
    session = "keyboard" /\ record_key_press(MaxKeyEvents, Keys, ControlNames, KeyGaps)

KeyReleaseSession ==
    session = "keyboard" /\ record_key_release(MaxKeyEvents, Keys, KeyGaps)

\* Mouse and keyboard together: the left button, one column of scrolling and
\* one key on one control, the notifications of the two listeners
\* interleaved in any order.
MixedClick ==
    session = "mixed" /\ on_click(MaxMixedEvents, {"left"}, Coords, {3})

MixedScroll ==
    session = "mixed"
    /\ on_scroll(MaxMixedEvents, {<<10, 10>>}, {<<0, 1>>, <<0, -1>>}, {3})

MixedKeyPress ==
    session = "mixed" /\ record_key_press(MaxMixedEvents, {"a"}, {"edit"}, {8})

MixedKeyRelease ==
    session = "mixed" /\ record_key_release(MaxMixedEvents, {"a"}, {8})

\* The left button is clicked at one place while the wheel is turned there.
PointerClick ==
    session = "pointer" /\ on_click(MaxPointerEvents, {"left"}, {<<10, 10>>}, {3})

PointerScroll ==
    session = "pointer"
    /\ on_scroll(MaxPointerEvents, {<<10, 10>>}, {<<0, 1>>, <<1, 1>>, <<0, -1>>}, {3})

\* interpreting.py run as a script: the left button and one key, until the
\* user presses Enter.
LiveClick ==
    session = "live" /\ on_click(MaxLiveEvents, {"left"}, {<<10, 10>>}, {3})

LiveKeyPress ==
    session = "live" /\ record_key_press(MaxLiveEvents, {"a"}, {"edit"}, {8})

LiveKeyRelease ==
    session = "live" /\ record_key_release(MaxLiveEvents, {"a"}, {8})

\* Keys are tapped on one control or another: a press when no key is down,
\* then the release of that key.
TypingPress ==
    /\ session = "typing"
    /\ Len(keyboard_recording) % 2 = 0
    /\ record_key_press(MaxTypingEvents, Keys, TypingControls, KeyGaps)

TypingRelease ==
    /\ session = "typing"
    /\ Len(keyboard_recording) % 2 = 1
    /\ record_key_release(MaxTypingEvents,
                          {keyboard_recording[Len(keyboard_recording)].key}, KeyGaps)

Next ==
    \/ ClickSession
    \/ ScrollSession
    \/ KeyPressSession
    \/ KeyReleaseSession
    \/ MixedClick
    \/ MixedScroll
    \/ MixedKeyPress
    \/ MixedKeyRelease
    \/ PointerClick
    \/ PointerScroll
    \/ TypingPress
    \/ TypingRelease
    \/ Interpret
    \/ on_click_begin
    \/ record_key_press_begin
    \/ \E r \in Recorders : list_append(r)
    \/ \E r \in Recorders : Drain(r)
    \/ LiveClick
    \/ LiveKeyPress
    \/ LiveKeyRelease
    \/ module_script
    \/ test_validation
    \/ test_get_relevant_control_attribute
    \/ construct_Interaction
    \/ construct_MouseClick
    \/ segment_mouse_recording
    \/ segment_keyboard_recording

Spec == Init /\ [][Next]_vars


-----------------------------------------------------------------------------
(* Properties of a finished session.                                       *)

Done == pc = "done"

\* The indexes of the interactions of the given types.
OfType(interactions, types) ==
    {x \in 1..Len(interactions) : interactions[x].interaction_type \in types}

EventIds(interaction) ==
    {interaction.input_events_associated[k].id :
        k \in 1..Len(interaction.input_events_associated)}

IsMousePress(e) == e.kind = "MouseClick" /\ e.pressed

IsMouseRelease(e) == e.kind = "MouseClick" /\ ~e.pressed

\* Every press is followed at once by the release of its button, and there
\* is nothing else: what a mouse that is only clicked and dragged sends.
PressReleasePairs(batch) ==
    /\ Len(batch) % 2 = 0
    /\ \A k \in 1..(Len(batch) \div 2) :
          /\ IsMousePress(batch[2 * k - 1])
          /\ IsMouseRelease(batch[2 * k])
          /\ batch[2 * k].button = batch[2 * k - 1].button

\* press, release, press, release of one button at one place.
TwoClicks(batch) ==
    /\ Len(batch) = 4
    /\ PressReleasePairs(batch)
    /\ \A k \in 2..4 : /\ batch[k].button = batch[1].button
                        /\ batch[k].coords = batch[1].coords

WellFormed(x) ==
    /\ Len(x.input_events_associated) >= 1
    /\ x.interaction_start_timestamp <= x.interaction_end_timestamp

\* C1: every Interaction that either segmenter returns has at least one
\* event and does not start after it ends.
C1_NonEmptyAndOrdered ==
    Done => /\ \A x \in 1..Len(mouse_interactions) : WellFormed(mouse_interactions[x])
            /\ \A x \in 1..Len(keyboard_interactions) :
                  WellFormed(keyboard_interactions[x])

\* Both segmenters returned something, one of it lasting some time.
C1_Witness ==
    /\ Done
    /\ Len(mouse_interactions) >= 1
    /\ Len(keyboard_interactions) >= 1
    /\ \E x \in 1..Len(keyboard_interactions) :
          keyboard_interactions[x].interaction_start_timestamp
              < keyboard_interactions[x].interaction_end_timestamp

\* C2: no press or release is in two of the click, drag and double click
\* interactions returned for a batch (stated for the batches of a mouse
\* whose every press is followed at once by its release).
C2_NoEventInTwoInteractions ==
    Done /\ PressReleasePairs(mouse_popped)
    => \A x, y \in OfType(mouse_interactions,
                          {"MOUSE_CLICKED", "MOUSE_DRAGGED", "MOUSE_DOUBLE_CLICKED"}) :
          x # y => EventIds(mouse_interactions[x]) \cap EventIds(mouse_interactions[y]) = {}

\* C3: two clicks of one button at one place, the presses more than 0.5 s
\* apart, give exactly two MOUSE_CLICKED and no MOUSE_DOUBLE_CLICKED.
C3_TwoSeparateClicks ==
    (/\ Done
     /\ TwoClicks(mouse_popped)
     /\ mouse_popped[3].timestamp - mouse_popped[1].timestamp
            > MOUSE_MAX_DOUBLE_CLICK_DELAY_SECONDS)
    => /\ Cardinality(OfType(mouse_interactions, {"MOUSE_CLICKED"})) = 2
       /\ OfType(mouse_interactions, {"MOUSE_DOUBLE_CLICKED"}) = {}

\* C4: two clicks of one button at one place, the presses at most 0.5 s
\* apart, give exactly one MOUSE_DOUBLE_CLICKED, which holds the four
\* events, and no MOUSE_CLICKED.
C4_OneDoubleClick ==
    (/\ Done
     /\ TwoClicks(mouse_popped)
     /\ mouse_popped[3].timestamp - mouse_popped[1].timestamp
            <= MOUSE_MAX_DOUBLE_CLICK_DELAY_SECONDS)
    => /\ Cardinality(OfType(mouse_interactions, {"MOUSE_DOUBLE_CLICKED"})) = 1
       /\ \A x \in OfType(mouse_interactions, {"MOUSE_DOUBLE_CLICKED"}) :
             mouse_interactions[x].input_events_associated = mouse_popped
       /\ OfType(mouse_interactions, {"MOUSE_CLICKED"}) = {}

\* Two clicks exactly 0.5 s apart were interpreted.
C4_Witness ==
    /\ Done
    /\ TwoClicks(mouse_popped)
    /\ mouse_popped[3].timestamp - mouse_popped[1].timestamp
           = MOUSE_MAX_DOUBLE_CLICK_DELAY_SECONDS
    /\ OfType(mouse_interactions, {"MOUSE_DOUBLE_CLICKED"}) # {}

\* One or more scrolls, all in one direction over one control.
OneScrollRun(batch) ==
    /\ Len(batch) >= 1
    /\ \A k \in 1..Len(batch) :
          /\ batch[k].kind = "MouseScroll"
          /\ horizontal_direction(batch[k]) = horizontal_direction(batch[1])
          /\ vertical_direction(batch[k]) = vertical_direction(batch[1])
          /\ batch[k].control = batch[1].control

\* C5: a batch that is one run of scrolls gives exactly one MOUSE_SCROLLED,
\* whose events are the scrolls of the batch.
C5_OneScrollInteraction ==
    Done /\ OneScrollRun(mouse_popped)
    => /\ Cardinality(OfType(mouse_interactions, {"MOUSE_SCROLLED"})) = 1
       /\ \A x \in OfType(mouse_interactions, {"MOUSE_SCROLLED"}) :
             mouse_interactions[x].input_events_associated = mouse_popped

\* A key pressed, pressed again once or more, then released.
HeldKey(batch) ==
    /\ Len(batch) >= 3
    /\ \A k \in 1..(Len(batch) - 1) :
          batch[k].kind = "KeyPress" /\ batch[k].key = batch[1].key
    /\ batch[Len(batch)].kind = "KeyRelease"
    /\ batch[Len(batch)].key = batch[1].key

\* C6: a held key gives exactly one SINGLE_KEY_HELD, over the first press
\* and the release, and neither SINGLE_KEY_PRESSED nor KEYBOARD_TYPING.
C6_OneKeyHeld ==
    Done /\ HeldKey(keyboard_popped)
    => /\ Cardinality(OfType(keyboard_interactions, {"SINGLE_KEY_HELD"})) = 1
       /\ \A x \in OfType(keyboard_interactions, {"SINGLE_KEY_HELD"}) :
             keyboard_interactions[x].input_events_associated
                 = <<keyboard_popped[1], keyboard_popped[Len(keyboard_popped)]>>
       /\ OfType(keyboard_interactions, {"SINGLE_KEY_PRESSED", "KEYBOARD_TYPING"}) = {}

\* Every key is released before the next one is pressed.
KeyPairs(batch) ==
    /\ Len(batch) % 2 = 0
    /\ \A k \in 1..(Len(batch) \div 2) :
          /\ batch[2 * k - 1].kind = "KeyPress"
          /\ batch[2 * k].kind = "KeyRelease"
          /\ batch[2 * k].key = batch[2 * k - 1].key

\* The press at index i of such a batch has no press within 1.5 s of it.
Isolated(batch, i) ==
    /\ i > 1 => batch[i].timestamp - batch[i - 2].timestamp
                    > KEYBOARD_MAX_TYPING_DELAY_SECONDS
    /\ i + 1 < Len(batch) => batch[i + 2].timestamp - batch[i].timestamp
                                 > KEYBOARD_MAX_TYPING_DELAY_SECONDS

\* C7: a press and release more than 1.5 s from the presses before and
\* after it give exactly one SINGLE_KEY_PRESSED holding the pair, and the
\* press is in no KEYBOARD_TYPING.
C7_IsolatedPairIsSingleKeyPress ==
    Done /\ KeyPairs(keyboard_popped)
    => \A k \in 1..(Len(keyboard_popped) \div 2) :
          Isolated(keyboard_popped, 2 * k - 1)
          => /\ Cardinality({x \in OfType(keyboard_interactions, {"SINGLE_KEY_PRESSED"}) :
                                keyboard_interactions[x].input_events_associated
                                    = <<keyboard_popped[2 * k - 1], keyboard_popped[2 * k]>>})
                   = 1
             /\ \A x \in OfType(keyboard_interactions, {"KEYBOARD_TYPING"}) :
                   keyboard_popped[2 * k - 1].id \notin EventIds(keyboard_interactions[x])

\* The presses of a batch of press and release pairs.
PressesOfPairs(batch) == [k \in 1..(Len(batch) \div 2) |-> batch[2 * k - 1]]

\* Two or more pairs on one control, each press at most 1.5 s after the
\* one before.
TypedRun(batch) ==
    /\ KeyPairs(batch)
    /\ Len(batch) >= 4
    /\ \A k \in 2..(Len(batch) \div 2) :
          /\ batch[2 * k - 1].closest_ctrl_name = batch[1].closest_ctrl_name
          /\ batch[2 * k - 1].timestamp - batch[2 * k - 3].timestamp
                 <= KEYBOARD_MAX_TYPING_DELAY_SECONDS

\* C8: such a run gives exactly one KEYBOARD_TYPING, whose events are the
\* presses in order, and no SINGLE_KEY_PRESSED, whatever the control's name.
C8_OneTyping ==
    Done /\ TypedRun(keyboard_popped)
    => /\ Cardinality(OfType(keyboard_interactions, {"KEYBOARD_TYPING"})) = 1
       /\ \A x \in OfType(keyboard_interactions, {"KEYBOARD_TYPING"}) :
             keyboard_interactions[x].input_events_associated
                 = PressesOfPairs(keyboard_popped)
       /\ OfType(keyboard_interactions, {"SINGLE_KEY_PRESSED"}) = {}

\* The releases of the button of batch[i] that come after it.
ReleasesAfter(batch, i) ==
    {j \in (i + 1)..Len(batch) :
        IsMouseRelease(batch[j]) /\ batch[j].button = batch[i].button}

\* The press at index i is released next at index j, somewhere else.
DraggedTo(batch, i, j) ==
    /\ IsMousePress(batch[i])
    /\ j \in ReleasesAfter(batch, i)
    /\ \A k \in ReleasesAfter(batch, i) : j <= k
    /\ batch[j].coords # batch[i].coords

\* C9: a press whose next release of the same button is at other
\* coordinates is in exactly one MOUSE_DRAGGED, whose events are that press
\* and that release, and in no MOUSE_CLICKED or MOUSE_DOUBLE_CLICKED.
C9_OneDrag ==
    Done
    => \A i, j \in 1..Len(mouse_batch) :
          DraggedTo(mouse_batch, i, j)
          => /\ Cardinality({x \in OfType(mouse_interactions, {"MOUSE_DRAGGED"}) :
                                mouse_batch[i].id \in EventIds(mouse_interactions[x])})
                   = 1
             /\ \A x \in OfType(mouse_interactions, {"MOUSE_DRAGGED"}) :
                   mouse_batch[i].id \in EventIds(mouse_interactions[x])
                   => mouse_interactions[x].input_events_associated
                          = <<mouse_batch[i], mouse_batch[j]>>
             /\ \A x \in OfType(mouse_interactions,
                                  {"MOUSE_CLICKED", "MOUSE_DOUBLE_CLICKED"}) :
                   mouse_batch[i].id \notin EventIds(mouse_interactions[x])

\* A drag was interpreted next to a click of the same button.
C9_Witness ==
    /\ Done
    /\ \E i, j \in 1..Len(mouse_batch) : DraggedTo(mouse_batch, i, j)
    /\ OfType(mouse_interactions, {"MOUSE_DRAGGED"}) # {}
    /\ OfType(mouse_interactions, {"MOUSE_CLICKED"}) # {}

\* C10: the merged list holds the interactions of both segmenters and its
\* start timestamps never decrease.
C10_CombinedSorted ==
    Done
    => /\ Len(combined) = Len(mouse_interactions) + Len(keyboard_interactions)
       /\ \A x \in 1..(Len(combined) - 1) :
             combined[x].interaction_start_timestamp
                 <= combined[x + 1].interaction_start_timestamp

\* The keyboard interaction began before the mouse interaction that the
\* concatenation puts in front of it.
C10_Witness ==
    /\ Done
    /\ Len(mouse_interactions) >= 1
    /\ Len(keyboard_interactions) >= 1
    /\ keyboard_interactions[1].interaction_start_timestamp
           < mouse_interactions[Len(mouse_interactions)].interaction_start_timestamp
    /\ Len(combined) >= 2

-----------------------------------------------------------------------------
(* Properties of the recorders while the listeners run.                    *)

Draining == session = "drain"

\* The callback of the event with this id has not reached its append.
InFlight(id) ==
    \E r \in Recorders : appending[r] # <<>> /\ appending[r][1].event.id = id

\* Where the event is: <<r, k, i>> is place i of the list that the k-th
\* pop_recording of recorder r returned, as it was returned, and k one more
\* than the number of pops is the recording itself.
Places(id) ==
    {p \in UNION {{<<r, k, i>> : i \in 1..MaxDrainEvents + 1} :
                     r \in Recorders, k \in 1..MaxDrains + 2} :
        LET r == p[1]
            k == p[2]
            batch == IF k <= Len(returned[r]) THEN returned[r][k].snapshot
                     ELSE IF k = Len(returned[r]) + 1 THEN RecordingOf(r)
                     ELSE <<>>
        IN  p[3] <= Len(batch) /\ batch[p[3]].id = id}

\* C11: whatever the interleaving of callbacks and pops, every event a
\* callback has appended is in exactly one place: in the batch one
\* pop_recording call returned, or in the recording.
C11_EveryEventInOneDrain ==
    Draining
    => \A id \in 1..captured : InFlight(id) \/ Cardinality(Places(id)) = 1

\* C12: the list a pop_recording call returned stays as it was returned:
\* no callback appends to it afterwards.
C12_ReturnedBatchNeverChanges ==
    Draining
    => \A r \in Recorders : \A k \in 1..Len(returned[r]) :
          returned[r][k].list = returned[r][k].snapshot

\* No append has been concurrent with a pop: no callback is running and no
\* returned list has grown.
NoConcurrentAppend ==
    /\ \A r \in Recorders : appending[r] = <<>>
    /\ \A r \in Recorders : \A k \in 1..Len(returned[r]) :
          returned[r][k].list = returned[r][k].snapshot

\* The batches recorder r has returned, one after the other, then its
\* recording.
RECURSIVE Drained(_, _)
Drained(r, k) ==
    IF k > Len(returned[r]) THEN RecordingOf(r)
    ELSE returned[r][k].snapshot \o Drained(r, k + 1)

Ascending(events) ==
    \A i \in 1..(Len(events) - 1) : events[i].id < events[i + 1].id

\* C14: with no concurrent appends, pop_recording returns the recording as
\* it is, leaves the recording empty, and the batches returned one after
\* the other hold every event recorded, in the order of the appends.
C14_PopReturnsAllInOrder ==
    /\ [][\A r \in Recorders :
             Len(returned'[r]) = Len(returned[r]) + 1 /\ appending[r] = <<>>
             => /\ returned'[r][Len(returned'[r])].snapshot = RecordingOf(r)
                /\ RecordingOf(r)' = <<>>]_vars
    /\ [](Draining /\ NoConcurrentAppend
          => /\ \A r \in Recorders : Ascending(Drained(r, 1))
             /\ UNION {{Drained(r, 1)[i].id : i \in 1..Len(Drained(r, 1))} :
                          r \in Recorders} = 1..captured)

\* Two events were popped, then a third was recorded and popped.
C14_Witness ==
    /\ Draining
    /\ NoConcurrentAppend
    /\ \E r \in Recorders :
          /\ Len(returned[r]) = 2
          /\ Len(returned[r][1].snapshot) = 2
          /\ Len(returned[r][2].snapshot) = 1
          /\ RecordingOf(r) = <<>>

\* The number of events in the lists recorder r has returned, from the
\* k-th on, as the lists are now.
RECURSIVE ReturnedLength(_, _)
ReturnedLength(r, k) ==
    IF k > Len(returned[r]) THEN 0
    ELSE Len(returned[r][k].list) + ReturnedLength(r, k + 1)

\* The events recorder r has appended to any list.
Appended(r) == ReturnedLength(r, 1) + Len(RecordingOf(r))

-----------------------------------------------------------------------------
(* Properties of the functions called on their own.                        *)

\* C13: an Interaction built from no events raises ValueError and there is
\* no Interaction; built from events, it starts at the timestamp of the
\* first and ends at the timestamp of the last.
C13_EmptyRaisesElseFirstAndLast ==
    called.function = "Interaction"
    => LET events == called.args[2]
       IN  IF Len(events) = 0
           THEN called.result.interaction_type = "ValueError"
           ELSE /\ called.result.interaction_type = called.args[1]
                /\ called.result.input_events_associated = events
                /\ called.result.interaction_start_timestamp = events[1].timestamp
                /\ called.result.interaction_end_timestamp
                       = events[Len(events)].timestamp

\* An Interaction was built from two events, the later one first.
C13_Witness ==
    /\ called.function = "Interaction"
    /\ Len(called.args[2]) = 2
    /\ called.args[2][1].timestamp > called.args[2][2].timestamp
    /\ called.result.interaction_start_timestamp
           > called.result.interaction_end_timestamp

AllAbsent(context) ==
    /\ context.closest_ctrl_name = None
    /\ context.closest_ctrl_class_name = None
    /\ context.window_title = None
    /\ context.process_name = None

\* C15: when the lookup of the control or one of the queries fails while an
\* event is captured, nothing is raised out of the construction of the
\* event and every field of its Context is absent.
C15_FailureGivesAbsentContext ==
    called.function = "MouseClick" /\ called.args[2] # None
    => /\ called.result.raises = None
       /\ AllAbsent(called.result.context)

\* The elements of the chain that are looked at and have the attribute.
Holding(control, attribute_name, max_parent_control_checks) ==
    {k \in 1..Len(control) :
        k <= max_parent_control_checks + 1 /\ control[k][attribute_name] # ""}

\* C16: the result is the attribute of the nearest element that has one
\* among the control and its first max_parent_control_checks ancestors,
\* and None when none of them has.
C16_NearestWithinLimit ==
    called.function = "get_relevant_control_attribute"
    => LET control == called.args[1]
           holding == Holding(control, called.args[2], called.args[3])
       IN  IF holding = {} THEN called.result = None
           ELSE \E k \in holding :
                   /\ \A h \in holding : k <= h
                   /\ called.result = control[k][called.args[2]]

\* Only the second ancestor has a name and one ancestor may be looked at.
C16_Witness ==
    /\ called.function = "get_relevant_control_attribute"
    /\ called.args[2] = "Name"
    /\ called.args[3] = 1
    /\ Len(called.args[1]) = 3
    /\ called.args[1][1].Name = ""
    /\ called.args[1][2].Name = ""
    /\ called.args[1][3].Name # ""
    /\ called.result = None

\* C17: MouseCoordinates raises ValueError when x or y is negative and
\* does not when both are 0.
C17_NegativeCoordinatesRaise ==
    called.function = "MouseCoordinates"
    => /\ called.args[1] < 0 \/ called.args[2] < 0
          => called.result.raises = "ValueError"
       /\ called.args[1] = 0 /\ called.args[2] = 0
          => called.result.raises = None

-----------------------------------------------------------------------------
(* Further properties of a finished session.                               *)

EventsAscending(x) ==
    \A k \in 1..(Len(x.input_events_associated) - 1) :
        x.input_events_associated[k].timestamp
            <= x.input_events_associated[k + 1].timestamp

\* C19: the events of every Interaction either segmenter returns are in
\* ascending order of timestamp.
C19_EventsOfInteractionAscending ==
    Done => /\ \A x \in 1..Len(mouse_interactions) :
                  EventsAscending(mouse_interactions[x])
            /\ \A x \in 1..Len(keyboard_interactions) :
                  EventsAscending(keyboard_interactions[x])

\* The place in the batch of the event with this id.
IndexOf(batch, id) == CHOOSE i \in 1..Len(batch) : batch[i].id = id

\* The pairs <<i, j>> the loop of interactions_from_mouse_recording makes:
\* the press at place i of the sorted batch with the release at place j,
\* as a drag or as a click candidate.
Matched(batch) ==
    LET st == MouseLoop(batch, 1, MouseLoopStart)
        drags == {st.interactions[x].input_events_associated :
                     x \in OfType(st.interactions, {"MOUSE_DRAGGED"})}
        clicks == {st.related_click_events[x] : x \in 1..Len(st.related_click_events)}
    IN  {<<IndexOf(batch, pair[1].id), IndexOf(batch, pair[2].id)>> :
            pair \in drags \cup clicks}

\* C20: every press that is matched is matched with the first release of
\* its button after it that no earlier press is matched with, so no
\* release is matched with two presses.
C20_FirstUnmatchedRelease ==
    Done
    => LET matched == Matched(mouse_batch)
       IN  \A m \in matched :
              LET free == {j \in ReleasesAfter(mouse_batch, m[1]) :
                              ~\E n \in matched : n[1] < m[1] /\ n[2] = j}
              IN  m[2] \in free /\ \A j \in free : m[2] <= j

-----------------------------------------------------------------------------
(* Clicks, double clicks and scrolls of a finished session.                *)

Abs(n) == IF n < 0 THEN -n ELSE n

\* An interaction of this type with exactly these events was returned.
EmittedAs(interactions, type, events) ==
    \E x \in OfType(interactions, {type}) :
        interactions[x].input_events_associated = events

\* The click candidates the loop collects from the sorted batch, in the
\* order of their presses.
ClickCandidates(batch) ==
    IF Len(batch) = 0 THEN <<>>
    ELSE MouseLoop(batch, 1, MouseLoopStart).related_click_events

\* Neither neighbour of candidate i has its button and a press within
\* 0.5 s of its press, before or after.
IsolatedClick(candidates, i) ==
    \A n \in {i - 1, i + 1} \cap (1..Len(candidates)) :
        ~(/\ candidates[n][1].button = candidates[i][1].button
          /\ Abs(candidates[n][1].timestamp - candidates[i][1].timestamp)
                 <= MOUSE_MAX_DOUBLE_CLICK_DELAY_SECONDS)

\* C21: a click candidate is returned as a MOUSE_CLICKED exactly when it is
\* isolated from the candidate before it and the candidate after it.
C21_ClickIffIsolated ==
    Done
    => LET candidates == ClickCandidates(mouse_batch)
       IN  \A i \in 1..Len(candidates) :
              EmittedAs(mouse_interactions, "MOUSE_CLICKED", candidates[i])
              <=> IsolatedClick(candidates, i)

\* C22: every MOUSE_DOUBLE_CLICKED is made of two candidates that were not
\* returned as MOUSE_CLICKED and have no other such candidate between them,
\* as press, release, press, release.
C22_DoubleClickFromRemainingPairs ==
    Done
    => LET candidates == ClickCandidates(mouse_batch)
           clicked(c) == EmittedAs(mouse_interactions, "MOUSE_CLICKED", candidates[c])
       IN  \A d \in OfType(mouse_interactions, {"MOUSE_DOUBLE_CLICKED"}) :
              \E a, b \in 1..Len(candidates) :
                 /\ a < b
                 /\ mouse_interactions[d].input_events_associated
                        = candidates[a] \o candidates[b]
                 /\ ~clicked(a)
                 /\ ~clicked(b)
                 /\ \A c \in (a + 1)..(b - 1) : clicked(c)
                 /\ IsMousePress(candidates[a][1]) /\ IsMouseRelease(candidates[a][2])
                 /\ IsMousePress(candidates[b][1]) /\ IsMouseRelease(candidates[b][2])

\* C23: every scroll of the batch is in exactly one MOUSE_SCROLLED, the
\* scrolls of the last run included.
C23_EveryScrollInOneInteraction ==
    Done
    => \A k \in 1..Len(mouse_popped) :
          mouse_popped[k].kind = "MouseScroll"
          => Cardinality({x \in OfType(mouse_interactions, {"MOUSE_SCROLLED"}) :
                             mouse_popped[k].id \in EventIds(mouse_interactions[x])})
                 = 1

\* Horizontal direction, vertical direction and control of a scroll: a
\* delta below 0 is left or down, any other is right or up.
Triple(e) == <<e.dx < 0, e.dy < 0, e.control>>

\* Interaction y begins with the scroll that follows the last scroll of
\* interaction x in the batch.
ScrollsOn(batch, x, y) ==
    LET last == x.input_events_associated[Len(x.input_events_associated)]
        first == y.input_events_associated[1]
    IN  /\ last.timestamp < first.timestamp
        /\ ~\E k \in 1..Len(batch) :
               /\ batch[k].kind = "MouseScroll"
               /\ last.timestamp < batch[k].timestamp
               /\ batch[k].timestamp < first.timestamp

IsScroll(e) == e.kind = "MouseScroll"

IsScrolled(x) == x.interaction_type = "MOUSE_SCROLLED"

\* C25: the MOUSE_SCROLLED returned for a batch are those returned for the
\* scrolls of the batch alone.
C25_ClicksDoNotBreakScrollRuns ==
    Done
    => SelectSeq(mouse_interactions, IsScrolled)
           = SelectSeq(interactions_from_mouse_recording(SelectSeq(mouse_popped, IsScroll)),
                       IsScrolled)

\* Two scrolls with a press or release between them are in one
\* MOUSE_SCROLLED.
C25_Witness ==
    /\ Done
    /\ \E x \in OfType(mouse_interactions, {"MOUSE_SCROLLED"}) :
          /\ Len(mouse_interactions[x].input_events_associated) = 2
          /\ \E k \in 1..Len(mouse_popped) :
                /\ mouse_popped[k].kind = "MouseClick"
                /\ mouse_interactions[x].input_events_associated[1].timestamp
                       < mouse_popped[k].timestamp
                /\ mouse_popped[k].timestamp
                       < mouse_interactions[x].input_events_associated[2].timestamp

-----------------------------------------------------------------------------
(* Keys of a finished session.                                             *)

\* The batch as line 169 sorts it.
KeyboardSorted(batch) == IF Len(batch) = 0 THEN batch ELSE SortByTimestamp(batch)

\* The press at place p comes after a press of the same key with no
\* release of that key between the two.
RepeatedPress(batch, p) ==
    /\ batch[p].kind = "KeyPress"
    /\ \E q \in 1..(p - 1) :
          /\ batch[q].kind = "KeyPress"
          /\ batch[q].key = batch[p].key
          /\ \A m \in (q + 1)..(p - 1) :
                ~(batch[m].kind = "KeyRelease" /\ batch[m].key = batch[p].key)

InSomeInteraction(interactions, id) ==
    \E x \in 1..Len(interactions) : id \in EventIds(interactions[x])

\* C26: the repeated presses of a held key, and only they, are taken out of
\* the batch, and a repeated press is in no interaction.
C26_OnlyRepeatedPressNeutralized ==
    Done
    => LET sorted == KeyboardSorted(keyboard_popped)
       IN  \A p \in 1..Len(sorted) :
              IF RepeatedPress(sorted, p)
              THEN /\ keyboard_batch[p] = NoneEvent
                   /\ ~InSomeInteraction(keyboard_interactions, sorted[p].id)
              ELSE keyboard_batch[p] = sorted[p]

\* The key candidates the loop collects from the sorted batch.
KeyCandidates(batch) ==
    IF Len(batch) = 0 THEN <<>>
    ELSE KeyLoop(1, KeyLoopStart(SortByTimestamp(batch))).related_keypress_events

\* A first press of a key at place p and, at place q, the next event of
\* that key, which is its release.
PressedAndReleased(batch, p, q) ==
    /\ p < q
    /\ batch[p].kind = "KeyPress"
    /\ ~RepeatedPress(batch, p)
    /\ batch[q].kind = "KeyRelease"
    /\ batch[q].key = batch[p].key
    /\ \A m \in (p + 1)..(q - 1) : batch[m].key # batch[p].key

\* C27: a key pressed once and released is a press candidate and is not
\* returned as SINGLE_KEY_HELD, whatever was done to other keys before.
C27_HeldIsPerKey ==
    Done
    => LET sorted == KeyboardSorted(keyboard_popped)
           candidates == KeyCandidates(keyboard_popped)
       IN  \A p, q \in 1..Len(sorted) :
              PressedAndReleased(sorted, p, q)
              => /\ \E c \in 1..Len(candidates) : candidates[c] = <<sorted[p], sorted[q]>>
                 /\ ~EmittedAs(keyboard_interactions, "SINGLE_KEY_HELD",
                               <<sorted[p], sorted[q]>>)

\* C28: no key event is in two of the interactions returned for a batch.
C28_NoKeyEventInTwoInteractions ==
    Done
    => \A x, y \in 1..Len(keyboard_interactions) :
          x # y => EventIds(keyboard_interactions[x])
                       \cap EventIds(keyboard_interactions[y]) = {}

\* The candidates before and after candidate i are pressed more than
\* 1.5 s from its press, whatever their keys.
IsolatedKeyPress(candidates, i) ==
    \A n \in {i - 1, i + 1} \cap (1..Len(candidates)) :
        Abs(candidates[n][1].timestamp - candidates[i][1].timestamp)
            > KEYBOARD_MAX_TYPING_DELAY_SECONDS

\* C29: a key candidate is returned as a SINGLE_KEY_PRESSED exactly when it
\* is isolated from the candidate before it and the candidate after it.
C29_SingleKeyPressIffIsolated ==
    Done
    => LET candidates == KeyCandidates(keyboard_popped)
       IN  \A i \in 1..Len(candidates) :
              EmittedAs(keyboard_interactions, "SINGLE_KEY_PRESSED", candidates[i])
              <=> IsolatedKeyPress(candidates, i)

\* C30: in every KEYBOARD_TYPING each press is at most 1.5 s after the
\* press before it.
C30_TypingGapsWithinDelay ==
    Done
    => \A x \in OfType(keyboard_interactions, {"KEYBOARD_TYPING"}) :
          \A k \in 1..(Len(keyboard_interactions[x].input_events_associated) - 1) :
             keyboard_interactions[x].input_events_associated[k + 1].timestamp
                 - keyboard_interactions[x].input_events_associated[k].timestamp
                 <= KEYBOARD_MAX_TYPING_DELAY_SECONDS

-----------------------------------------------------------------------------
(* Typing runs and the candidates they are made of.                        *)

\* C31: the presses of a KEYBOARD_TYPING all have the control name of its
\* first press.
C31_TypingOnOneControl ==
    Done
    => \A x \in OfType(keyboard_interactions, {"KEYBOARD_TYPING"}) :
          \A k \in 1..Len(keyboard_interactions[x].input_events_associated) :
             keyboard_interactions[x].input_events_associated[k].closest_ctrl_name
                 = keyboard_interactions[x].input_events_associated[1].closest_ctrl_name

\* The interactions that stand for the candidate: the SINGLE_KEY_PRESSED
\* made of it and the KEYBOARD_TYPING that hold its press.
Representing(interactions, candidate) ==
    {x \in OfType(interactions, {"SINGLE_KEY_PRESSED"}) :
        interactions[x].input_events_associated = candidate}
    \cup {x \in OfType(interactions, {"KEYBOARD_TYPING"}) :
             candidate[1].id \in EventIds(interactions[x])}

\* C32: every key candidate is in the result once, as a SINGLE_KEY_PRESSED
\* or in one KEYBOARD_TYPING, and a KEYBOARD_TYPING holds presses only, in
\* the order of their timestamps.
C32_EveryCandidateOnce ==
    Done
    => LET candidates == KeyCandidates(keyboard_popped)
       IN  /\ \A c \in 1..Len(candidates) :
                 Cardinality(Representing(keyboard_interactions, candidates[c])) = 1
           /\ \A x \in OfType(keyboard_interactions, {"KEYBOARD_TYPING"}) :
                 LET events == keyboard_interactions[x].input_events_associated
                 IN  /\ \A k \in 1..Len(events) : events[k].kind = "KeyPress"
                     /\ \A k \in 1..(Len(events) - 1) :
                           events[k].timestamp <= events[k + 1].timestamp

-----------------------------------------------------------------------------
(* Presses left without a release, and what a segmenter may raise.         *)

\* The press at place k of the batch has no release of its button after it.
Unreleased(batch, k) ==
    /\ IsMousePress(batch[k])
    /\ ~\E m \in 1..Len(batch) :
           /\ IsMouseRelease(batch[m])
           /\ batch[m].button = batch[k].button
           /\ batch[m].timestamp > batch[k].timestamp

\* C33: a press with no later release of its button in the batch is in no
\* interaction.
C33_UnreleasedPressDropped ==
    Done
    => \A k \in 1..Len(mouse_popped) :
          Unreleased(mouse_popped, k)
          => ~InSomeInteraction(mouse_interactions, mouse_popped[k].id)

\* A button was clicked and another pressed and not released, with a
\* release of the first button after that press: the click is returned.
C33_Witness ==
    /\ Done
    /\ Len(mouse_interactions) > 0
    /\ \E k, m \in 1..Len(mouse_popped) :
          /\ Unreleased(mouse_popped, k)
          /\ IsMouseRelease(mouse_popped[m])
          /\ mouse_popped[m].timestamp > mouse_popped[k].timestamp

\* C34: neither segmenter raises, whatever the batch: no Interaction is
\* built from an empty list of events.
C34_SegmentersNeverRaise ==
    Done
    => /\ ~raised
       /\ ~Raises(MouseBuilt(mouse_popped))
       /\ ~Raises(KeyboardBuilt(keyboard_popped))
       /\ \A x \in 1..Len(combined) : Len(combined[x].input_events_associated) > 0

\* Three presses and one release of a button leave three candidates, none
\* of them a click on its own: the segmenter returned all the same.
C34_Witness ==
    /\ Done
    /\ ~raised
    /\ LET candidates == ClickCandidates(mouse_batch)
       IN  /\ Len(candidates) = 3
           /\ \A c \in 1..3 :
                 ~EmittedAs(mouse_interactions, "MOUSE_CLICKED", candidates[c])

\* C36: the list handed to a segmenter holds, after the call, the events it
\* held before, in the same order, so that the segmenter run again on it
\* returns the same interactions.
C36_BatchLeftAsItWas ==
    (Done /\ session \in Scripted)
    => /\ mouse_batch = mouse_popped
       /\ keyboard_batch = keyboard_popped
       /\ interactions_from_mouse_recording(mouse_batch) = mouse_interactions
       /\ \A k \in 1..Len(keyboard_batch) : keyboard_batch[k] # NoneEvent

\* C38: the two presses of a MOUSE_DOUBLE_CLICKED are of one button and at
\* most 0.5 s apart.
C38_DoubleClickOneButtonInTime ==
    Done
    => \A d \in OfType(mouse_interactions, {"MOUSE_DOUBLE_CLICKED"}) :
          LET events == mouse_interactions[d].input_events_associated
          IN  /\ events[1].button = events[3].button
              /\ Abs(events[3].timestamp - events[1].timestamp)
                     <= MOUSE_MAX_DOUBLE_CLICK_DELAY_SECONDS

-----------------------------------------------------------------------------
(* The order of the batch.                                                 *)

\* The list with its elements in the order p.
Reordered(recording, p) == [k \in 1..Len(recording) |-> recording[p[k]]]

AsSet(interactions) == {interactions[x] : x \in 1..Len(interactions)}

\* C35: a segmenter returns the same set of interactions for a batch of
\* events with different timestamps and for every reordering of it.
C35_OrderOfBatchIrrelevant ==
    /\ called.function = "interactions_from_mouse_recording"
       => \A p \in Permutations(1..Len(called.args[1])) :
             AsSet(interactions_from_mouse_recording(Reordered(called.args[1], p)))
                 = AsSet(called.result)
    /\ called.function = "interactions_from_keyboard_recording"
       => \A p \in Permutations(1..Len(called.args[1])) :
             AsSet(interactions_from_keyboard_recording(Reordered(called.args[1], p)))
                 = AsSet(called.result)

\* A segmenter was given a release before its press, and a third event,
\* and returned an interaction.
C35_Witness ==
    /\ called.function \in {"interactions_from_mouse_recording",
                            "interactions_from_keyboard_recording"}
    /\ Len(called.args[1]) = 3
    /\ called.args[1][1].timestamp > called.args[1][2].timestamp
    /\ IsMouseRelease(called.args[1][1]) \/ called.args[1][1].kind = "KeyRelease"
    /\ Len(called.result) > 0

-----------------------------------------------------------------------------
(* What a segmentation pass is given.                                      *)

\* C37: the step in which the recordings are segmented has drained them:
\* the segmenters are given what pop_recording returned and the recorders
\* are left with new, empty lists.
C37_SegmentsOnlyDrainedBatches ==
    [][(pc = "recording" /\ pc' # "recording")
          => /\ mouse_popped' = mouse_recording
             /\ keyboard_popped' = keyboard_recording
             /\ mouse_recording' = <<>>
             /\ keyboard_recording' = <<>>]_vars

=============================================================================
